---------------------------- MODULE Spec2Model ----------------------------
(***************************************************************************)
(* cliweather (src/src/main.rs): a single-shot command line client.  One   *)
(* run clears the terminal, loads (api_key, default_city) from config.txt  *)
(* or from two prompts, resolves the effective city from the command line, *)
(* issues one HTTP GET and renders the answer.                             *)
(*                                                                         *)
(* Strings are sequences of characters; a character is a one-letter        *)
(* string.  BAD stands for a byte that is not valid UTF-8.  Literal pieces *)
(* of format strings are kept as one token each.  Glyphs are written by    *)
(* name (":sun:").  Standard output is taken to accept every write once    *)
(* the terminal clear of main's first line has succeeded.                  *)
(***************************************************************************)
EXTENDS Integers, Sequences, FiniteSets, TLC

VARIABLES
    pc,            \* position of main: Start .. Exit
    trace,         \* history: the positions visited so far, in order
    file,          \* config.txt: [exists, data]
    file0,         \* history: config.txt as it was at process start
    writes,        \* history: number of successful fs::write calls
    stdin,         \* bytes still unread on standard input
    stdin0,        \* history: standard input as it was at process start
    stdout,        \* what was written to standard output, in order
    args,          \* std::env::args() after the program name
    env,           \* the surroundings: [clearOk, writable, transportOk, status, body]
    api_key,       \* main's api_key
    default_city,  \* main's default_city
    city,          \* main's city
    requests,      \* the URLs handed to reqwest::get, in order
    result,        \* how main ended: "running", "ok", "err" or "panic"
    errKind,       \* which error ended main ("none" when none did)
    exitCode       \* the process's exit status (-1 while it runs)

vars == <<pc, trace, file, file0, writes, stdin, stdin0, stdout, args, env, api_key,
          default_city, city, requests, result, errKind, exitCode>>

-----------------------------------------------------------------------------
(* Bounds of the model.                                                    *)

MaxFileLen == 4     \* longest config.txt content, in characters
MaxStdinLen == 5    \* longest standard input, in characters
MaxArgs == 2        \* most command line arguments
MaxArgLen == 2      \* longest command line argument
MaxUpperPos == 3    \* letter positions of a description whose case varies

-----------------------------------------------------------------------------
(* Characters and the string functions of the standard library.            *)

LF == "\n"
CR == "\r"
TAB == "\t"
SP == " "
BAD == "0xFF"

Range(s) == {s[i] : i \in 1..Len(s)}

SeqsUpTo(S, n) == UNION {[1..k -> S] : k \in 0..n}

\* char::is_whitespace, restricted to the characters of the model
is_whitespace(c) == c \in {SP, TAB, LF, CR}

\* String::from_utf8: a string holds no invalid byte
is_utf8(s) == BAD \notin Range(s)

\* position of the first line feed of s, 0 when there is none
FirstLF(s) ==
    IF \E i \in 1..Len(s) : s[i] = LF
    THEN CHOOSE i \in 1..Len(s) : s[i] = LF /\ \A j \in 1..(i - 1) : s[j] # LF
    ELSE 0

\* str::trim: drop the leading and the trailing whitespace
trim(s) ==
    LET keep == {i \in 1..Len(s) : ~is_whitespace(s[i])}
    IN  IF keep = {} THEN <<>>
        ELSE LET lo == CHOOSE i \in keep : \A j \in keep : i <= j
                 hi == CHOOSE i \in keep : \A j \in keep : j <= i
             IN  SubSeq(s, lo, hi)

\* str::split_inclusive('\n'): the pieces of s, each ending with its line feed
RECURSIVE split_inclusive(_)
split_inclusive(s) ==
    IF s = <<>> THEN <<>>
    ELSE LET n == FirstLF(s)
         IN  IF n = 0 THEN <<s>>
             ELSE <<SubSeq(s, 1, n)>> \o split_inclusive(SubSeq(s, n + 1, Len(s)))

\* the map of str::lines: strip "\n", and only then one "\r" before it (a
\* "\r" that ends the text with no "\n" after it stays)
LinesMap(piece) ==
    IF piece # <<>> /\ piece[Len(piece)] = LF
    THEN LET l == SubSeq(piece, 1, Len(piece) - 1)
         IN  IF l # <<>> /\ l[Len(l)] = CR THEN SubSeq(l, 1, Len(l) - 1) ELSE l
    ELSE piece

\* str::lines
lines(s) ==
    LET p == split_inclusive(s) IN [i \in 1..Len(p) |-> LinesMap(p[i])]

\* the i-th lines.next().unwrap_or("")
next_or_empty(ls, i) == IF i <= Len(ls) THEN ls[i] ELSE <<>>

\* [String]::join
RECURSIVE join(_, _)
join(parts, sep) ==
    IF parts = <<>> THEN <<>>
    ELSE IF Len(parts) = 1 THEN parts[1]
    ELSE parts[1] \o sep \o join(Tail(parts), sep)

\* Stdin::read_line: the bytes up to and including the first line feed (all of
\* them at end of input); an error when they are not UTF-8
read_line(in) ==
    LET n == FirstLF(in)
        l == IF n = 0 THEN in ELSE SubSeq(in, 1, n)
    IN  [ok |-> is_utf8(l),
         line |-> l,
         rest |-> IF n = 0 THEN <<>> ELSE SubSeq(in, n + 1, Len(in))]

-----------------------------------------------------------------------------
(* The config file and get_config.                                         *)

Absent == [exists |-> FALSE, data |-> <<>>]
Present(d) == [exists |-> TRUE, data |-> d]

\* fs::read_to_string(CONFIG_FILE): Ok only for an existing UTF-8 file
read_to_string(f) ==
    [ok |-> f.exists /\ is_utf8(f.data), text |-> f.data]

Line(t) == [kind |-> "text", text |-> t, rows |-> <<>>]

PromptKey == Line(<<"Please enter your OpenWeatherMap API key: ">>)
PromptCity == Line(<<"Please enter your preferred city, district, or state: ">>)

\* the text get_config writes: format!("{}\n{}", api_key.trim(), city.trim())
ConfigTextNoTrim(k, c) == k \o <<LF>> \o c
ConfigText(k, c) == trim(k) \o <<LF>> \o trim(c)

\* fs::write(CONFIG_FILE, text): creates or replaces the file, or fails and
\* leaves it alone
fs_write(f, text, writable) ==
    [ok |-> writable, file |-> IF writable THEN Present(text) ELSE f]

\* .expect("Unable to write to config file"): panics exactly on Err
write_unchecked(w) == FALSE
write_panics(w) == ~w.ok

\* get_config: the pair it returns and what it does to the file and the streams
get_config(f, in, writable) ==
    LET rd == read_to_string(f)
        ls == lines(rd.text)
        r1 == read_line(in)
        r2 == read_line(r1.rest)
        w  == fs_write(f, ConfigText(r1.line, r2.line), writable)
        base == [panic |-> "none", api_key |-> <<>>, city |-> <<>>, file |-> f,
                 rest |-> in, out |-> <<>>, writes |-> 0]
    IN  IF rd.ok
        THEN [base EXCEPT !.api_key = next_or_empty(ls, 1),
                          !.city = next_or_empty(ls, 2)]
        ELSE IF ~r1.ok
        THEN [base EXCEPT !.panic = "read_line", !.rest = r1.rest,
                          !.out = <<PromptKey>>]
        ELSE IF ~r2.ok
        THEN [base EXCEPT !.panic = "read_line", !.rest = r2.rest,
                          !.out = <<PromptKey, PromptCity>>]
        ELSE IF write_panics(w)
        THEN [base EXCEPT !.panic = "write", !.rest = r2.rest, !.file = w.file,
                          !.out = <<PromptKey, PromptCity>>]
        ELSE [base EXCEPT !.api_key = trim(r1.line), !.city = trim(r2.line),
                          !.file = w.file,
                          !.writes = IF w.ok THEN 1 ELSE 0,
                          !.rest = r2.rest,
                          !.out = <<PromptKey, PromptCity>>]

-----------------------------------------------------------------------------
(* get_weather_icon.  The glyphs are written by name.                      *)

Upper == <<"A", "B", "C", "D", "E", "F", "G", "H", "I", "J", "K", "L", "M",
           "N", "O", "P", "Q", "R", "S", "T", "U", "V", "W", "X", "Y", "Z">>
Lower == <<"a", "b", "c", "d", "e", "f", "g", "h", "i", "j", "k", "l", "m",
           "n", "o", "p", "q", "r", "s", "t", "u", "v", "w", "x", "y", "z">>

\* char::to_lowercase on the characters of the model
char_to_lowercase(c) ==
    IF \E i \in 1..26 : Upper[i] = c
    THEN Lower[CHOOSE i \in 1..26 : Upper[i] = c]
    ELSE c

char_to_uppercase(c) ==
    IF \E i \in 1..26 : Lower[i] = c
    THEN Upper[CHOOSE i \in 1..26 : Lower[i] = c]
    ELSE c

\* str::to_lowercase
to_lowercase(s) == [i \in 1..Len(s) |-> char_to_lowercase(s[i])]

ClearSky == <<"c", "l", "e", "a", "r", " ", "s", "k", "y">>
FewClouds == <<"f", "e", "w", " ", "c", "l", "o", "u", "d", "s">>
ScatteredClouds == <<"s", "c", "a", "t", "t", "e", "r", "e", "d", " ",
                     "c", "l", "o", "u", "d", "s">>
BrokenClouds == <<"b", "r", "o", "k", "e", "n", " ", "c", "l", "o", "u", "d", "s">>
ShowerRain == <<"s", "h", "o", "w", "e", "r", " ", "r", "a", "i", "n">>
Rain == <<"r", "a", "i", "n">>
Thunderstorm == <<"t", "h", "u", "n", "d", "e", "r", "s", "t", "o", "r", "m">>
Snow == <<"s", "n", "o", "w">>
Mist == <<"m", "i", "s", "t">>
Haze == <<"h", "a", "z", "e">>
Fog == <<"f", "o", "g">>
Dust == <<"d", "u", "s", "t">>
Sand == <<"s", "a", "n", "d">>
Tornado == <<"t", "o", "r", "n", "a", "d", "o">>

DefaultIcon == ":rainbow:"

\* the match of get_weather_icon on a string taken as it is
match_icon(s) ==
    CASE s = ClearSky -> ":sun:"
      [] s = FewClouds -> ":sun behind small cloud:"
      [] s = ScatteredClouds -> ":sun behind large cloud:"
      [] s = BrokenClouds -> ":cloud:"
      [] s = ShowerRain -> ":cloud with rain:"
      [] s = Rain -> ":cloud with rain:"
      [] s = Thunderstorm -> ":cloud with lightning and rain:"
      [] s = Snow -> ":snowflake:"
      [] s = Mist \/ s = Haze -> ":fog:"
      [] s = Fog -> ":fog:"
      [] s = Dust -> ":tornado:"
      [] s = Sand -> ":tornado:"
      [] s = Tornado -> ":tornado:"
      [] OTHER -> DefaultIcon

get_weather_icon_case_sensitive(description) == match_icon(description)
get_weather_icon(description) == match_icon(to_lowercase(description))

-----------------------------------------------------------------------------
(* JSON values, and serde's deserialization of them.                       *)

Digit == <<"0", "1", "2", "3", "4", "5", "6", "7", "8", "9">>

DigitValue(c) == (CHOOSE i \in 1..10 : Digit[i] = c) - 1

\* the decimal digits of a natural number
RECURSIVE Digits(_)
Digits(n) == IF n < 10 THEN <<Digit[n + 1]>>
             ELSE Digits(n \div 10) \o <<Digit[(n % 10) + 1]>>

\* the natural number a digit string spells
RECURSIVE ParseNat(_)
ParseNat(ds) ==
    IF ds = <<>> THEN 0
    ELSE 10 * ParseNat(SubSeq(ds, 1, Len(ds) - 1)) + DigitValue(ds[Len(ds)])

\* digit strings of one length, compared as numbers
LeqDigits(a, b) ==
    \/ a = b
    \/ \E i \in 1..Len(a) :
          /\ DigitValue(a[i]) < DigitValue(b[i])
          /\ \A j \in 1..(i - 1) : a[j] = b[j]

NotJson == [t |-> "invalid", v |-> <<>>]
JNull == [t |-> "null", v |-> <<>>]
JStr(s) == [t |-> "string", v |-> s]
\* a number is kept as its text: an optional "-", digits, and at most one
\* fractional digit after a "."
JNum(text) == [t |-> "number", v |-> text]
JArr(items) == [t |-> "array", v |-> items]
JObj(fields) == [t |-> "object", v |-> fields]

has_field(j, k) == j.t = "object" /\ k \in DOMAIN j.v

is_negative(text) == text # <<>> /\ text[1] = "-"
magnitude(text) == IF is_negative(text) THEN Tail(text) ELSE text
is_integer_text(text) == "." \notin Range(text)
whole_part(text) ==
    LET m == magnitude(text)
    IN  IF is_integer_text(text) THEN m
        ELSE SubSeq(m, 1, (CHOOSE i \in 1..Len(m) : m[i] = ".") - 1)
frac_part(text) ==
    LET m == magnitude(text)
    IN  IF is_integer_text(text) THEN <<>>
        ELSE SubSeq(m, (CHOOSE i \in 1..Len(m) : m[i] = ".") + 1, Len(m))

I32Max == <<"2", "1", "4", "7", "4", "8", "3", "6", "4", "7">>
I32MinMagnitude == <<"2", "1", "4", "7", "4", "8", "3", "6", "4", "8">>

\* f64: any JSON number
de_f64(j) == j.t = "number"

\* the f64 read from a number, in tenths
f64_value(text) ==
    LET a == 10 * ParseNat(whole_part(text)) +
             (IF frac_part(text) = <<>> THEN 0 ELSE DigitValue(frac_part(text)[1]))
    IN  IF is_negative(text) THEN -a ELSE a

\* i32: a JSON integer (no fraction) that fits 32 bits
de_i32(j) ==
    /\ j.t = "number"
    /\ is_integer_text(j.v)
    /\ LET m == magnitude(j.v)
           limit == IF is_negative(j.v) THEN I32MinMagnitude ELSE I32Max
       IN  Len(m) < 10 \/ (Len(m) = 10 /\ LeqDigits(m, limit))

\* the i32 read from a number that de_i32 accepts (i32::MIN itself is left
\* out of the bodies of the model)
i32_value(text) ==
    IF is_negative(text) THEN -ParseNat(magnitude(text)) ELSE ParseNat(magnitude(text))

de_String(j) == j.t = "string"

\* struct Main { temp: f64, pressure: i32, humidity: i32 }
de_Main(j) ==
    /\ has_field(j, "temp") /\ de_f64(j.v.temp)
    /\ has_field(j, "pressure") /\ de_i32(j.v.pressure)
    /\ has_field(j, "humidity") /\ de_i32(j.v.humidity)

\* struct WeatherCondition { description: String }
de_WeatherCondition(j) ==
    has_field(j, "description") /\ de_String(j.v.description)

\* Vec<WeatherCondition>: an array of any length, every element a condition
de_Vec_WeatherCondition(j) ==
    j.t = "array" /\ \A i \in 1..Len(j.v) : de_WeatherCondition(j.v[i])

\* struct WeatherResponse { main, name, weather }: response.json() is Ok
de_WeatherResponse(j) ==
    /\ has_field(j, "main") /\ de_Main(j.v.main)
    /\ has_field(j, "name") /\ de_String(j.v.name)
    /\ has_field(j, "weather") /\ de_Vec_WeatherCondition(j.v.weather)

\* the WeatherResponse built from a body that deserializes
WeatherResponse(j) ==
    [name |-> j.v.name.v,
     main |-> [temp |-> f64_value(j.v.main.v.temp.v),
               pressure |-> i32_value(j.v.main.v.pressure.v),
               humidity |-> i32_value(j.v.main.v.humidity.v)],
     weather |-> [i \in 1..Len(j.v.weather.v) |->
                     [description |-> j.v.weather.v[i].v.description.v]]]

\* serde_json::Value: any well-formed JSON text
de_Value_object_only(j) == j.t = "object"
de_Value(j) == j.t # "invalid"

\* StatusCode::is_success
is_success(status) == 200 <= status /\ status <= 299

-----------------------------------------------------------------------------
(* Rendering.                                                              *)

\* i32::to_string
i32_to_string(n) == IF n < 0 THEN <<"-">> \o Digits(-n) ELSE Digits(n)

\* f64::to_string of a value given in tenths: no fraction when it is whole
f64_to_string(x10) ==
    LET a == IF x10 < 0 THEN -x10 ELSE x10
        sign == IF x10 < 0 THEN <<"-">> ELSE <<>>
    IN  sign \o Digits(a \div 10) \o
        (IF a % 10 = 0 THEN <<>> ELSE <<".", Digit[(a % 10) + 1]>>)

LabelCity == ":cityscape: City"
LabelTemperature == ":thermometer: Temperature (C)"
LabelHumidity == ":droplet: Humidity (%)"
LabelPressure == ":wind face: Pressure (hPa)"
LabelCondition == ":sun behind small cloud: Condition"

\* the rows main adds to the table, in the order of its add_row calls;
\* weather[0] is taken by the caller
TableRowsPressureFirst(w, icon, description) ==
    << <<LabelCity, w.name>>,
       <<LabelTemperature, f64_to_string(w.main.temp)>>,
       <<LabelPressure, i32_to_string(w.main.pressure)>>,
       <<LabelHumidity, i32_to_string(w.main.humidity)>>,
       <<LabelCondition, <<icon, SP>> \o description>> >>
TableRows(w, icon, description) ==
    << <<LabelCity, w.name>>,
       <<LabelTemperature, f64_to_string(w.main.temp)>>,
       <<LabelHumidity, i32_to_string(w.main.humidity)>>,
       <<LabelPressure, i32_to_string(w.main.pressure)>>,
       <<LabelCondition, <<icon, SP>> \o description>> >>

Title == Line(<<"Weather Information">>)
Blank == Line(<<>>)
TablePrinted(rows) == [kind |-> "table", text |-> <<>>, rows |-> rows]
\* println!(":cross mark: Error: {}", error_message): one line, the value in
\* serde_json's compact form (kept here as the value itself)
ErrorLine(j) == [kind |-> "error", text |-> <<":cross mark: Error: ">>, rows |-> <<j>>]

\* the URL of the request
Url(c, k) ==
    <<"https://api.openweathermap.org/data/2.5/weather?q=">> \o c \o
    <<"&appid=">> \o k \o <<"&units=metric">>

\* the effective city: args[1..].join(" ") when there are arguments
ResolveFirstArg(a, dflt) == IF Len(a) > 0 THEN a[1] ELSE dflt
Resolve(a, dflt) == IF Len(a) > 0 THEN join(a, <<SP>>) ELSE dflt

-----------------------------------------------------------------------------
(* main, one action per step.                                              *)

ClearScreen == Line(<<"ESC[2J">>)

\* the exit status of the process: 0 for Ok(()), 1 for Err, 101 for a panic
exit_code(r) == CASE r = "ok" -> 0 [] r = "err" -> 1 [] r = "panic" -> 101

Abort(how, kind) ==
    /\ pc' = "Aborted"
    /\ trace' = Append(trace, "Aborted")
    /\ result' = how
    /\ errKind' = kind

\* execute!(stdout(), Clear(All))?;  let (api_key, default_city) = get_config();
LoadConfig ==
    /\ pc = "Start"
    /\ IF ~env.clearOk
       THEN /\ Abort("err", "TerminalError")
            /\ UNCHANGED <<file, writes, stdin, stdout, api_key, default_city>>
       ELSE LET g == get_config(file, stdin, env.writable)
            IN  /\ file' = g.file
                /\ writes' = writes + g.writes
                /\ stdin' = g.rest
                /\ stdout' = stdout \o <<ClearScreen>> \o g.out
                /\ IF g.panic = "write"
                   THEN /\ Abort("panic", "ConfigWriteError")
                        /\ UNCHANGED <<api_key, default_city>>
                   ELSE IF g.panic = "read_line"
                   THEN /\ Abort("panic", "ReadLineError")
                        /\ UNCHANGED <<api_key, default_city>>
                   ELSE /\ pc' = "ConfigLoaded"
                        /\ trace' = Append(trace, "ConfigLoaded")
                        /\ api_key' = g.api_key
                        /\ default_city' = g.city
                        /\ UNCHANGED <<result, errKind>>
    /\ UNCHANGED <<file0, stdin0, args, env, city, requests, exitCode>>

\* let city = if args.len() > 1 { args[1..].join(" ") } else { default_city };
ResolveCity ==
    /\ pc = "ConfigLoaded"
    /\ city' = Resolve(args, default_city)
    /\ pc' = "CityResolved"
    /\ trace' = Append(trace, "CityResolved")
    /\ UNCHANGED <<file, file0, writes, stdin, stdin0, stdout, args, env, api_key,
                   default_city, requests, result, errKind, exitCode>>

\* the position from which reqwest::get is called
MaySendAfterError == pc \in {"CityResolved", "ErrorPrinted"}
MaySend == pc = "CityResolved"

\* reqwest::get(&url) is called with the formatted URL
SendRequest ==
    /\ MaySend
    /\ requests' = Append(requests, Url(city, api_key))
    /\ pc' = "RequestSent"
    /\ trace' = Append(trace, "RequestSent")
    /\ UNCHANGED <<file, file0, writes, stdin, stdin0, stdout, args, env, api_key,
                   default_city, city, result, errKind, exitCode>>

\* .await? on the request, then the two branches on response.status()
HandleResponse ==
    /\ pc = "RequestSent"
    /\ IF ~env.transportOk
       THEN Abort("err", "TransportError") /\ UNCHANGED stdout
       ELSE IF is_success(env.status)
       THEN IF ~de_WeatherResponse(env.body)
            THEN Abort("err", "DeserializationError") /\ UNCHANGED stdout
            ELSE LET w == WeatherResponse(env.body)
                 IN  IF Len(w.weather) = 0
                     THEN \* weather_response.weather[0] panics
                          Abort("panic", "IndexOutOfBounds") /\ UNCHANGED stdout
                     ELSE LET d == w.weather[1].description
                              rows == TableRows(w, get_weather_icon(d), d)
                          IN  /\ stdout' = stdout \o
                                    <<Blank, Title, Blank, TablePrinted(rows)>>
                              /\ pc' = "Rendered"
                              /\ trace' = Append(trace, "Rendered")
                              /\ result' = "ok"
                              /\ UNCHANGED errKind
       ELSE IF ~de_Value(env.body)
            THEN Abort("err", "DeserializationError") /\ UNCHANGED stdout
            ELSE /\ stdout' = Append(stdout, ErrorLine(env.body))
                 /\ pc' = "ErrorPrinted"
                 /\ trace' = Append(trace, "ErrorPrinted")
                 /\ result' = "ok"
                 /\ UNCHANGED errKind
    /\ UNCHANGED <<file, file0, writes, stdin, stdin0, args, env, api_key,
                   default_city, city, requests, exitCode>>

\* main returns (or unwinds) and the process exits
Exit ==
    /\ pc \in {"Rendered", "ErrorPrinted", "Aborted"}
    /\ exitCode' = exit_code(result)
    /\ pc' = "Exit"
    /\ trace' = Append(trace, "Exit")
    /\ UNCHANGED <<file, file0, writes, stdin, stdin0, stdout, args, env, api_key,
                   default_city, city, requests, result, errKind>>

Next == LoadConfig \/ ResolveCity \/ SendRequest \/ HandleResponse \/ Exit

-----------------------------------------------------------------------------
(* The states a run can start in.                                          *)

Paris == <<"P", "a", "r", "i", "s">>

\* a success body in the expected shape
Body(name, temp, pressure, humidity, weather) ==
    JObj([name |-> name,
          main |-> JObj([temp |-> temp, pressure |-> pressure, humidity |-> humidity]),
          weather |-> weather])

Cond(d) == JObj([description |-> JStr(d)])

GoodBody(d) == Body(JStr(Paris), JNum(<<"1", "5", ".", "0">>), JNum(<<"1", "0", "1", "2">>), JNum(<<"6", "0">>), JArr(<<Cond(d)>>))

CityNotFound ==
    JObj([cod |-> JStr(<<"4", "0", "4">>),
          message |-> JStr(<<"city not found">>)])

\* bodies in the expected shape (extra fields are ignored)
BodiesInShape ==
    {GoodBody(ClearSky),
     Body(JStr(Paris), JNum(<<"1", "5">>), JNum(<<"1", "0", "1", "2">>), JNum(<<"6", "0">>), JArr(<<Cond(Rain)>>)),
     Body(JStr(<<>>), JNum(<<"-", "0", ".", "5">>), JNum(<<"-", "1">>), JNum(<<"0">>), JArr(<<Cond(<<>>)>>)),
     Body(JStr(Paris), JNum(<<"1", "5", ".", "5">>), JNum(<<"2", "1", "4", "7", "4", "8", "3", "6", "4", "7">>), JNum(<<"6", "0">>),
          JArr(<<Cond(Snow), Cond(Fog)>>)),
     JObj([name |-> JStr(Paris),
           cod |-> JNum(<<"2", "0", "0">>),
           main |-> JObj([temp |-> JNum(<<"7">>), pressure |-> JNum(<<"9", "9", "0">>),
                          humidity |-> JNum(<<"1", "0", "0">>), feels_like |-> JNum(<<"5", ".", "5">>)]),
           weather |-> JArr(<<JObj([description |-> JStr(Mist), id |-> JNum(<<"7", "0", "1">>)])>>)])}

\* bodies that are JSON but not in the expected shape: a missing field, a
\* wrong type, a number that does not fit
BodiesOutOfShape ==
    {CityNotFound,
     JObj(<<>>),
     JNull,
     JStr(Paris),
     JArr(<<>>),
     JObj([name |-> JStr(Paris), weather |-> JArr(<<Cond(Rain)>>)]),
     JObj([name |-> JStr(Paris),
           main |-> JObj([temp |-> JNum(<<"1", "5", ".", "0">>), pressure |-> JNum(<<"1", "0", "1", "2">>),
                          humidity |-> JNum(<<"6", "0">>)])]),
     JObj([main |-> JObj([temp |-> JNum(<<"1", "5", ".", "0">>), pressure |-> JNum(<<"1", "0", "1", "2">>),
                          humidity |-> JNum(<<"6", "0">>)]),
           weather |-> JArr(<<Cond(Rain)>>)]),
     Body(JNum(<<"5">>), JNum(<<"1", "5", ".", "0">>), JNum(<<"1", "0", "1", "2">>), JNum(<<"6", "0">>), JArr(<<Cond(Rain)>>)),
     Body(JNull, JNum(<<"1", "5", ".", "0">>), JNum(<<"1", "0", "1", "2">>), JNum(<<"6", "0">>), JArr(<<Cond(Rain)>>)),
     Body(JStr(Paris), JStr(<<"1", "5">>), JNum(<<"1", "0", "1", "2">>), JNum(<<"6", "0">>), JArr(<<Cond(Rain)>>)),
     Body(JStr(Paris), JNum(<<"1", "5", ".", "0">>), JNum(<<"1", "0", "1", "2", ".", "5">>), JNum(<<"6", "0">>), JArr(<<Cond(Rain)>>)),
     Body(JStr(Paris), JNum(<<"1", "5", ".", "0">>), JNum(<<"2", "1", "4", "7", "4", "8", "3", "6", "4", "8">>), JNum(<<"6", "0">>), JArr(<<Cond(Rain)>>)),
     Body(JStr(Paris), JNum(<<"1", "5", ".", "0">>), JNum(<<"1", "0", "1", "2">>), JNum(<<"6", "0", ".", "0">>), JArr(<<Cond(Rain)>>)),
     Body(JStr(Paris), JNum(<<"1", "5", ".", "0">>), JNum(<<"1", "0", "1", "2">>), JNull, JArr(<<Cond(Rain)>>)),
     Body(JStr(Paris), JNum(<<"1", "5", ".", "0">>), JNum(<<"1", "0", "1", "2">>), JNum(<<"6", "0">>), JNull),
     Body(JStr(Paris), JNum(<<"1", "5", ".", "0">>), JNum(<<"1", "0", "1", "2">>), JNum(<<"6", "0">>), Cond(Rain)),
     Body(JStr(Paris), JNum(<<"1", "5", ".", "0">>), JNum(<<"1", "0", "1", "2">>), JNum(<<"6", "0">>), JArr(<<JObj(<<>>)>>)),
     Body(JStr(Paris), JNum(<<"1", "5", ".", "0">>), JNum(<<"1", "0", "1", "2">>), JNum(<<"6", "0">>),
          JArr(<<Cond(Rain), JStr(Rain)>>)),
     Body(JStr(Paris), JNum(<<"1", "5", ".", "0">>), JNum(<<"1", "0", "1", "2">>), JNum(<<"6", "0">>),
          JArr(<<JObj([description |-> JNum(<<"8", "0", "0">>)])>>))}

\* the expected shape but for a weather array with no element
BodiesEmptyWeather ==
    {Body(JStr(Paris), JNum(<<"1", "5", ".", "0">>), JNum(<<"1", "0", "1", "2">>), JNum(<<"6", "0">>), JArr(<<>>))}

Bodies == BodiesInShape \cup BodiesOutOfShape \cup BodiesEmptyWeather \cup {NotJson}

Statuses == {200, 204, 401, 404, 500}

KeyCity == <<"k", LF, "T">>
TypedKeyCity == <<"k", LF, "T", LF>>

Env(c, w, t, st, b) ==
    [clearOk |-> c, writable |-> w, transportOk |-> t, status |-> st, body |-> b]

\* what every run starts with, whatever its surroundings
InitRun ==
    /\ pc = "Start"
    /\ trace = <<"Start">>
    /\ file0 = file
    /\ stdin0 = stdin
    /\ writes = 0
    /\ stdout = <<>>
    /\ api_key = <<>>
    /\ default_city = <<>>
    /\ city = <<>>
    /\ requests = <<>>
    /\ result = "running"
    /\ errKind = "none"
    /\ exitCode = -1

\* runs in all kinds of surroundings, a few of each
Init ==
    /\ file \in {Absent, Present(<<>>), Present(KeyCity), Present(<<BAD>>)}
    /\ stdin \in {<<>>, TypedKeyCity, <<BAD, LF>>, <<"k", LF, BAD>>}
    /\ args \in {<<>>, << <<"N">> >>, << <<"N">>, <<"Y">> >>}
    /\ env \in {Env(c, w, t, st, b) :
                  c \in BOOLEAN, w \in BOOLEAN, t \in BOOLEAN, st \in {200, 404},
                  b \in {GoodBody(ClearSky), CityNotFound, NotJson}
                        \cup BodiesEmptyWeather}
    /\ InitRun

Spec == Init /\ [][Next]_vars

\* the config file and the typed input vary; the rest is one plain run
FileChars == {"k", SP, LF, CR, BAD}
StdinChars == {"k", SP, LF, CR, BAD}

InitConfig ==
    /\ \/ /\ file \in {Present(d) : d \in SeqsUpTo(FileChars, MaxFileLen)}
          /\ stdin = TypedKeyCity
       \/ /\ file \in {Absent, Present(<<BAD>>)}
          /\ stdin \in SeqsUpTo(StdinChars, MaxStdinLen)
    /\ args = <<>>
    /\ env \in {Env(TRUE, w, TRUE, 200, GoodBody(ClearSky)) : w \in BOOLEAN}
    /\ InitRun

SpecConfig == InitConfig /\ [][Next]_vars

\* the command line varies
ArgChars == {"N", SP}

InitArgs ==
    /\ file \in {Absent, Present(<<>>), Present(KeyCity), Present(<<"k", LF, "N", SP, "Y">>)}
    /\ stdin = TypedKeyCity
    /\ args \in SeqsUpTo(SeqsUpTo(ArgChars, MaxArgLen), MaxArgs)
    /\ env = Env(TRUE, TRUE, TRUE, 200, GoodBody(ClearSky))
    /\ InitRun

SpecArgs == InitArgs /\ [][Next]_vars

\* the provider's answer varies
InitResponse ==
    /\ file = Present(KeyCity)
    /\ stdin = <<>>
    /\ args \in {<<>>, << <<"N">>, <<"Y">> >>}
    /\ env \in {Env(TRUE, TRUE, t, st, b) :
                  t \in BOOLEAN, st \in Statuses, b \in Bodies}
    /\ InitRun

SpecResponse == InitResponse /\ [][Next]_vars

\* the description of the first condition varies
Recognized == {ClearSky, FewClouds, ScatteredClouds, BrokenClouds, ShowerRain,
               Rain, Thunderstorm, Snow, Mist, Haze, Fog, Dust, Sand, Tornado}

UpperAt(r, U) == [i \in 1..Len(r) |-> IF i \in U THEN char_to_uppercase(r[i]) ELSE r[i]]

CaseVariants(r) ==
    {UpperAt(r, U) : U \in SUBSET {i \in 1..Len(r) : i <= MaxUpperPos}}
        \cup {UpperAt(r, 1..Len(r))}

Descriptions ==
    UNION {CaseVariants(r) : r \in Recognized}
        \cup {<<SP>> \o r : r \in Recognized}
        \cup {r \o <<SP>> : r \in Recognized}
        \cup {r \o <<"s">> : r \in Recognized}
        \cup {<<"l", "i", "g", "h", "t", SP>> \o UpperAt(r, {1}) : r \in Recognized}
        \cup {<<>>, <<"c", "l", "e", "a", "r">>, <<"c", "l", "o", "u", "d", "s">>,
              <<"c", "l", "e", "a", "r", "s", "k", "y">>,
              <<"c", "l", "e", "a", "r", "_", "s", "k", "y">>}

InitIcon ==
    /\ file = Present(KeyCity)
    /\ stdin = <<>>
    /\ args = <<>>
    /\ env \in {Env(TRUE, TRUE, TRUE, 200, GoodBody(d)) : d \in Descriptions}
    /\ InitRun

SpecIcon == InitIcon /\ [][Next]_vars

-----------------------------------------------------------------------------
(* What the claims speak of.                                               *)

Visited(p) == p \in Range(trace)

\* the response arrived and main has dealt with it
Answered == Visited("RequestSent") /\ pc # "RequestSent" /\ env.transportOk

TablesPrinted == {i \in 1..Len(stdout) : stdout[i].kind = "table"}
ErrorsPrinted == {i \in 1..Len(stdout) : stdout[i].kind = "error"}
Prompted == \E i \in 1..Len(stdout) : stdout[i] \in {PromptKey, PromptCity}

ErrorPrintedRun ==
    /\ Visited("ErrorPrinted")
    /\ ~Visited("Aborted")
    /\ result = "ok"
    /\ Cardinality(ErrorsPrinted) = 1
    /\ stdout[Len(stdout)] = ErrorLine(env.body)
    /\ TablesPrinted = {}
    /\ pc = "Exit" => exitCode = 0

\* C1 as stated: a non-success status, whatever the body, ends the run in
\* ErrorPrinted with the body printed on one line after the error marker, no
\* abort, and exit code 0.
C1_AnyBodyIsPrinted ==
    (Answered /\ ~(200 <= env.status /\ env.status <= 299)) => ErrorPrintedRun

\* C1 as amended: a non-success status whose body is well-formed JSON, of any
\* shape, ends the run in ErrorPrinted with the body printed on one line after
\* the error marker, no abort, and exit code 0.
C1_JsonBodyIsPrinted ==
    (Answered /\ ~(200 <= env.status /\ env.status <= 299) /\ env.body # NotJson)
        => ErrorPrintedRun

C1_Witness ==
    /\ pc = "Exit"
    /\ env.status = 404
    /\ env.body = CityNotFound
    /\ stdout[Len(stdout)] = ErrorLine(CityNotFound)
    /\ exitCode = 0

\* C2: a success status whose body is not in the expected shape (a missing
\* field, a wrong type, or a weather array with no element) aborts the run
\* with a DeserializationError returned as an error value: a non-zero exit and
\* no table.
C2_OutOfShapeIsDeserializationError ==
    (Answered /\ 200 <= env.status /\ env.status <= 299
        /\ env.body \in BodiesOutOfShape \cup BodiesEmptyWeather)
        => /\ Visited("Aborted")
           /\ result = "err"
           /\ errKind = "DeserializationError"
           /\ TablesPrinted = {}
           /\ pc = "Exit" => exitCode # 0

Labels(rows) == [i \in 1..Len(rows) |-> rows[i][1]]

RenderedTable == stdout[CHOOSE i \in TablesPrinted : TRUE].rows

\* how a number of the body reads once parsed and printed: a whole f64 loses
\* its ".0"
Shown(text) ==
    IF ~is_integer_text(text) /\ frac_part(text) = <<"0">>
    THEN SubSeq(text, 1, Len(text) - 2)
    ELSE text

\* C3 as stated: every render emits the rows city, temperature, pressure,
\* humidity, condition, in this order, each a (label, value) pair.
C3_PressureBeforeHumidity ==
    Visited("Rendered") =>
        /\ Cardinality(TablesPrinted) = 1
        /\ Labels(RenderedTable) = <<LabelCity, LabelTemperature, LabelPressure,
                                     LabelHumidity, LabelCondition>>

\* C3 as amended: every render emits the rows city, temperature, humidity,
\* pressure, condition (icon, space, description), in this order, each a
\* (label, value) pair with the value taken from the response.
C3_HumidityBeforePressure ==
    Visited("Rendered") =>
        /\ Cardinality(TablesPrinted) = 1
        /\ Labels(RenderedTable) = <<LabelCity, LabelTemperature, LabelHumidity,
                                     LabelPressure, LabelCondition>>
        /\ \A i \in 1..Len(RenderedTable) : Len(RenderedTable[i]) = 2
        /\ LET m == env.body.v.main.v
               d == env.body.v.weather.v[1].v.description.v
           IN  /\ RenderedTable[1][2] = env.body.v.name.v
               /\ RenderedTable[2][2] = Shown(m.temp.v)
               /\ RenderedTable[3][2] = m.humidity.v
               /\ RenderedTable[4][2] = m.pressure.v
               /\ Len(RenderedTable[5][2]) = Len(d) + 2
               /\ RenderedTable[5][2][2] = SP
               /\ SubSeq(RenderedTable[5][2], 3, Len(d) + 2) = d

C3_Witness ==
    /\ pc = "Rendered"
    /\ env.body = GoodBody(ClearSky)
    /\ RenderedTable =
         << <<LabelCity, Paris>>,
            <<LabelTemperature, <<"1", "5">> >>,
            <<LabelHumidity, <<"6", "0">> >>,
            <<LabelPressure, <<"1", "0", "1", "2">> >>,
            <<LabelCondition, <<":sun:", SP>> \o ClearSky>> >>

\* C4: the config file is written at most once in a run, and only when it
\* was absent at process start; a file that exists at process start, whatever
\* its content or readability, is left as it was and the user is not prompted.
C4_ExistingFileUntouched ==
    /\ writes <= 1
    /\ writes = 1 => ~file0.exists
    /\ file0.exists => (file = file0 /\ ~Prompted)

\* where the i-th word of a space-joined list starts, less one
RECURSIVE OffsetOf(_, _)
OffsetOf(a, i) == IF i = 1 THEN 0 ELSE OffsetOf(a, i - 1) + Len(a[i - 1]) + 1

\* c is the words of a, in order, with exactly one space between neighbours
SpaceJoined(c, a) ==
    /\ Len(c) = OffsetOf(a, Len(a)) + Len(a[Len(a)])
    /\ \A i \in 1..Len(a) :
          /\ SubSeq(c, OffsetOf(a, i) + 1, OffsetOf(a, i) + Len(a[i])) = a[i]
          /\ i < Len(a) => c[OffsetOf(a, i) + Len(a[i]) + 1] = SP

\* C5: with a non-empty argument list the effective city is the arguments
\* joined by single spaces, whatever the config's default city; with the empty
\* list it is exactly the config's default city.
C5_EffectiveCity ==
    Visited("CityResolved") =>
        IF args = <<>> THEN city = default_city ELSE SpaceJoined(city, args)

C5_Witness ==
    /\ pc = "CityResolved"
    /\ args = << <<"N">>, <<"N", SP>> >>
    /\ default_city = <<"T">>
    /\ city = <<"N", SP, "N", SP>>

LineFeeds(s) == {i \in 1..Len(s) : s[i] = LF}

\* the position of the n-th line feed of s (0 for n = 0)
NthLineFeed(s, n) ==
    IF n = 0 THEN 0
    ELSE CHOOSE i \in LineFeeds(s) : Cardinality({j \in LineFeeds(s) : j <= i}) = n

\* line n of a file's content: what stands between line feed n - 1 and line
\* feed n (or the end), less the "\r" of a "\r\n"; empty when there is no such
\* line
LineOf(s, n) ==
    IF Cardinality(LineFeeds(s)) < n - 1 THEN <<>>
    ELSE LET from == NthLineFeed(s, n - 1) + 1
             ended == Cardinality(LineFeeds(s)) >= n
             to == IF ended THEN NthLineFeed(s, n) - 1 ELSE Len(s)
         IN  IF ended /\ to >= from /\ s[to] = CR
             THEN SubSeq(s, from, to - 1)
             ELSE SubSeq(s, from, to)

\* C6: for every content of a present config file get_config returns (line 1,
\* line 2) of it, the empty string for a missing line, further lines ignored,
\* nothing validated, no error raised.
C6_PresentFileYieldsItsLines ==
    (file0.exists /\ pc # "Start" /\ env.clearOk) =>
        /\ errKind \notin {"ConfigWriteError", "ReadLineError"}
        /\ ~Prompted
        /\ api_key = LineOf(file0.data, 1)
        /\ default_city = LineOf(file0.data, 2)

\* C6 on the contents that are text: holds (the lines are split as LineOf
\* says); C6 fails only where C4 does, on a file that is not UTF-8.
PresentTextFileYieldsItsLines ==
    (file0.exists /\ is_utf8(file0.data) /\ pc # "Start" /\ env.clearOk) =>
        /\ errKind \notin {"ConfigWriteError", "ReadLineError"}
        /\ ~Prompted
        /\ api_key = LineOf(file0.data, 1)
        /\ default_city = LineOf(file0.data, 2)

Trimmed(s) == s = <<>> \/ (~is_whitespace(s[1]) /\ ~is_whitespace(s[Len(s)]))

\* C7: whatever is typed at the two prompts, the file the file-absent path
\* writes reads back, through the file-present path, as the trimmed
\* (api_key, city) pair that the file-absent path returned.
C7_RoundTrip ==
    writes = 1 =>
        LET back == get_config(file, <<>>, FALSE)
        IN  /\ back.panic = "none"
            /\ back.out = <<>>
            /\ back.api_key = api_key
            /\ back.city = default_city
            /\ Trimmed(api_key)
            /\ Trimmed(default_city)

C7_Witness ==
    /\ pc = "ConfigLoaded"
    /\ writes = 1
    /\ file0 = Absent
    /\ stdin0 = <<SP, "k", LF, "k", CR>>
    /\ file = Present(<<"k", LF, "k">>)
    /\ api_key = <<"k">>
    /\ default_city = <<"k">>

\* the bytes get_config has taken from standard input
Typed == SubSeq(stdin0, 1, Len(stdin0) - Len(stdin))

\* get_config reached its fs::write and the write failed
WriteFailed ==
    /\ pc # "Start"
    /\ env.clearOk
    /\ PromptCity \in Range(stdout)
    /\ is_utf8(Typed)
    /\ ~env.writable

\* C9: when the config file is absent and writing it fails, the process
\* aborts with a non-zero exit and never issues an HTTP request.
C9_WriteFailureIsFatal ==
    (~file0.exists /\ WriteFailed) =>
        /\ pc \in {"Aborted", "Exit"}
        /\ ~Visited("RequestSent")
        /\ requests = <<>>
        /\ result = "panic"
        /\ errKind = "ConfigWriteError"
        /\ pc = "Exit" => exitCode # 0

C9_Witness ==
    /\ pc = "Exit"
    /\ file0 = Absent
    /\ file = Absent
    /\ ~env.writable
    /\ errKind = "ConfigWriteError"
    /\ exitCode = 101
    /\ requests = <<>>

Outcomes == {"Rendered", "ErrorPrinted", "Aborted"}

FullRuns ==
    {<<"Start", "ConfigLoaded", "CityResolved", "RequestSent", o, "Exit">> :
        o \in Outcomes}

IsPrefix(p, q) == Len(p) <= Len(q) /\ SubSeq(q, 1, Len(p)) = p

OneRequestInOrder ==
    /\ Len(requests) <= 1
    /\ requests # <<>> <=>
          \E i \in 1..Len(trace) :
              /\ trace[i] = "RequestSent"
              /\ \E j \in 1..(i - 1) : trace[j] = "ConfigLoaded"
              /\ \E j \in 1..(i - 1) : trace[j] = "CityResolved"
    /\ \A i, j \in 1..Len(trace) : trace[i] = trace[j] => i = j
    /\ pc = trace[Len(trace)]

Glyphs ==
    {<<ClearSky, ":sun:">>, <<FewClouds, ":sun behind small cloud:">>,
     <<ScatteredClouds, ":sun behind large cloud:">>, <<BrokenClouds, ":cloud:">>,
     <<ShowerRain, ":cloud with rain:">>, <<Rain, ":cloud with rain:">>,
     <<Thunderstorm, ":cloud with lightning and rain:">>, <<Snow, ":snowflake:">>,
     <<Mist, ":fog:">>, <<Haze, ":fog:">>, <<Fog, ":fog:">>,
     <<Dust, ":tornado:">>, <<Sand, ":tornado:">>, <<Tornado, ":tornado:">>}

\* d is r but for the case of its letters
SameButCase(d, r) ==
    /\ Len(d) = Len(r)
    /\ \A i \in 1..Len(d) :
          \E k \in 1..26 : {d[i], r[i]} \subseteq {Upper[k], Lower[k]}
                           \/ d[i] = r[i]

\* C8: get_weather_icon gives a recognized description, in any letter case,
\* its glyph, and every other string (a recognized one with text or space
\* around it too) the default glyph.
C8_IconLookup ==
    Visited("Rendered") =>
        LET d == env.body.v.weather.v[1].v.description.v
            icon == RenderedTable[5][2][1]
        IN  /\ \A g \in Glyphs : SameButCase(d, g[1]) => icon = g[2]
            /\ (\A g \in Glyphs : ~SameButCase(d, g[1])) => icon = DefaultIcon

C8_Witness ==
    /\ pc = "Rendered"
    /\ RenderedTable[5][2] = <<":cloud with rain:", SP, "R", "A", "I", "N">>

=============================================================================
